---------------------------- MODULE Spec2Model ----------------------------
(***************************************************************************)
(* Model of 02-run-this-script/convert_gridmove_to_kzones.py: the GridMove *)
(* template parser (parse_groups), the restricted expression evaluator     *)
(* (safe_eval), the zone normaliser and de-duplicator (convert) and the    *)
(* command line driver (main, find_ini_files, choose_file, convert_file).  *)
(*                                                                         *)
(* Numbers.  A Python float is modelled as a record: a finite value, or    *)
(* one of inf, -inf, nan.  A finite value is the double nearest to v steps *)
(* of 1/Scale = 0.0001, so every finite value of the model is a decimal    *)
(* literal one can write in a template.  The binary rounding error of a    *)
(* double (about 1e-14 here) is far below the step and shows in one place  *)
(* only: round(v, 3) of a value whose fourth decimal is 5 goes up or down  *)
(* with the side of that decimal on which the double lies.  The field e    *)
(* keeps that side (1 above, -1 below, 0 exactly on it) for such values,   *)
(* and is 0 for every other value.                                         *)
(***************************************************************************)
EXTENDS Integers, Sequences, FiniteSets, TLC

\* steps per 1.0: 10 per thousandth, and round(_, 3) keeps thousandths
Scale == 10 * 1000
\* steps per thousandth
Milli == Scale \div 1000

\* ------------------------------------------------------------------ floats
FinE(n, e) == [k |-> "fin", v |-> n, e |-> e]
Fin(n) == FinE(n, 0)
PosInf == [k |-> "inf", v |-> 1, e |-> 0]
NegInf == [k |-> "inf", v |-> -1, e |-> 0]
NaN == [k |-> "nan", v |-> 0, e |-> 0]
\* what a raised exception leaves in place of a value
Err == [k |-> "err", v |-> 0, e |-> 0]
\* the fourth decimal of n steps is 5: round(_, 3) is decided by the double
Tie(n) == n % Milli = Milli \div 2

\* finite value of n whole units
Num(n) == Fin(n * Scale)

\* above every finite value of the model
Huge == 2000 * 1000 * 1000
Rank(a) == IF a.k = "fin" THEN a.v ELSE a.v * Huge
\* float a < b: False as soon as one side is nan
Lt(a, b) ==
    /\ a.k # "nan" /\ b.k # "nan"
    /\ Rank(a) < Rank(b) \/ (Rank(a) = Rank(b) /\ a.e < b.e)

Sign(n) == IF n < 0 THEN -1 ELSE IF n > 0 THEN 1 ELSE 0
InfOf(s) == IF s < 0 THEN NegInf ELSE PosInf

(***************************************************************************)
(* The side on which the double a - b lies, for the finite values a and b  *)
(* of the model whose difference has 5 as its fourth decimal, as           *)
(* <<a.v, b.v, side>>: IEEE 754 binary64, round to nearest.                *)
(*    31.6245 - (-50) -> 81.62449999999999  (round(_, 3) = 81.624)         *)
(*    50 - 31.6245    -> 18.375499999999999 (18.375)                       *)
(*    100 - 31.6245   -> 68.37550000000000239 (68.376)                     *)
(*    150 - 31.6245   -> 118.3755000000000024 (118.376)                    *)
(***************************************************************************)
TieFacts == {<<316245, -500000, -1>>, <<500000, 316245, -1>>,
             <<1000000, 316245, 1>>, <<1500000, 316245, 1>>}
\* the side of a - b; a difference at a tie that TieFacts lacks has no value
SubSide(a, b) ==
    (CHOOSE f \in TieFacts : f[1] = a.v /\ f[2] = b.v)[3]

Neg(a) == IF a.k = "nan" THEN NaN ELSE [k |-> a.k, v |-> -a.v, e |-> -a.e]
\* finite a - b: exact when one side is 0
SubFin(a, b) ==
    IF b.v = 0 THEN a
    ELSE IF a.v = 0 THEN Neg(b)
    ELSE IF Tie(a.v - b.v) THEN FinE(a.v - b.v, SubSide(a, b))
    ELSE Fin(a.v - b.v)
Sub(a, b) ==
    IF a.k = "nan" \/ b.k = "nan" THEN NaN
    ELSE IF a.k = "inf" /\ b.k = "inf" THEN (IF a.v = b.v THEN NaN ELSE a)
    ELSE IF a.k = "inf" THEN a
    ELSE IF b.k = "inf" THEN Neg(b)
    ELSE SubFin(a, b)
Add(a, b) == Sub(a, Neg(b))
\* a * b / Scale without leaving TLC's 32-bit integers; the products and
\* the quotients of the expressions below are exact doubles
MulFix(a, b) == (a \div Scale) * b + ((a % Scale) * b) \div Scale
Mul(a, b) ==
    IF a.k = "nan" \/ b.k = "nan" THEN NaN
    ELSE IF a.k = "inf" \/ b.k = "inf"
         THEN (IF a.v = 0 \/ b.v = 0 THEN NaN ELSE InfOf(Sign(a.v) * Sign(b.v)))
    ELSE Fin(MulFix(a.v, b.v))
\* a * Scale / b, b # 0
DivFix(a, b) == (a \div b) * Scale + ((a % b) * Scale) \div b
\* Python's /: ZeroDivisionError on a zero divisor
Div(a, b) ==
    IF b.k = "fin" /\ b.v = 0 THEN Err
    ELSE IF a.k = "nan" \/ b.k = "nan" THEN NaN
    ELSE IF a.k = "inf" /\ b.k = "inf" THEN NaN
    ELSE IF a.k = "inf" THEN InfOf(a.v * Sign(b.v))
    ELSE IF b.k = "inf" THEN Fin(0)
    ELSE IF b.v < 0 THEN Fin(DivFix(-a.v, -b.v))
    ELSE Fin(DivFix(a.v, b.v))

\* Python's min(a, b) and max(a, b): the first argument unless the second is
\* strictly smaller (larger)
PyMin(a, b) == IF Lt(b, a) THEN b ELSE a
PyMax(a, b) == IF Lt(a, b) THEN b ELSE a

\* a finite value cut to its thousandths, in steps
RoundDown3(a) == (a.v \div Milli) * Milli
\* round(a, 3) of a finite value, in steps: to the nearest thousandth, and
\* at a tie to the side of the double (to the even thousandth when the
\* double is the tie itself)
Round3(a) ==
    LET down == (a.v \div Milli) * Milli
        up == down + Milli IN
    IF a.v = down THEN down
    ELSE IF ~Tie(a.v) THEN (IF a.v - down < up - a.v THEN down ELSE up)
    ELSE IF a.e > 0 THEN up
    ELSE IF a.e < 0 THEN down
    ELSE IF (down \div Milli) % 2 = 0 THEN down ELSE up

\* ------------------------------------------------------------ expressions
(***************************************************************************)
(* An expression string is held as the sequence of its lexemes.  t is the  *)
(* lexeme's class: "num" (a numeric literal, v its value), "name" (an      *)
(* identifier, s its text), "op" (s one of + - * /), "lpar", "rpar",       *)
(* "lbr", "rbr" (the brackets [ and ]) and "bad" (a character outside      *)
(* SAFE_PATTERN's class, s its text).                                      *)
(***************************************************************************)
TNum(n) == [t |-> "num", s |-> "", v |-> n]
TName(s) == [t |-> "name", s |-> s, v |-> Fin(0)]
TOp(s) == [t |-> "op", s |-> s, v |-> Fin(0)]
TLbr == [t |-> "lbr", s |-> "[", v |-> Fin(0)]
TRbr == [t |-> "rbr", s |-> "]", v |-> Fin(0)]
TLpar == [t |-> "lpar", s |-> "(", v |-> Fin(0)]
TRpar == [t |-> "rpar", s |-> ")", v |-> Fin(0)]
TBad(s) == [t |-> "bad", s |-> s, v |-> Fin(0)]

VarNames == {"Monitor1Left", "Monitor1Top", "Monitor1Width",
             "Monitor1Height", "Monitor1Right", "Monitor1Bottom"}
VARS == [n \in VarNames |->
           IF n \in {"Monitor1Left", "Monitor1Top"} THEN Num(0) ELSE Num(100)]

\* expr.replace('[','').replace(']','')
StripBrackets(e) == SelectSeq(e, LAMBDA tk : tk.t \notin {"lbr", "rbr"})
\* SAFE_PATTERN.fullmatch: one or more characters, all of the allowed class
SafePattern(e) == Len(e) > 0 /\ \A i \in 1..Len(e) : e[i].t # "bad"

(***************************************************************************)
(* eval over the arithmetic of a template: numbers, the names of VARS,     *)
(* unary and binary + and -, * and /, and parentheses, with Python's       *)
(* precedence and left-to-right grouping.  The lexemes are read one by one *)
(* into a stack of frames, one per open parenthesis.  A frame holds the    *)
(* sum so far (acc, with the pending addop), the product so far (term,     *)
(* with the pending mulop), the pending unary sign and whether an operand  *)
(* is expected next.                                                       *)
(***************************************************************************)
NewFrame == [acc |-> Fin(0), addop |-> "", term |-> Fin(0), mulop |-> "",
             sign |-> 1, operand |-> TRUE]
EvalFail == [err |-> TRUE, stack |-> <<>>]
EvalStart == [err |-> FALSE, stack |-> <<NewFrame>>]

\* the value of a frame whose last operand is read
FrameValue(f) ==
    CASE f.addop = "+" -> Add(f.acc, f.term)
      [] f.addop = "-" -> Sub(f.acc, f.term)
      [] OTHER -> f.term

\* the frame after operand v: the pending sign, then the pending * or /
Operand(f, v) ==
    LET sv == IF f.sign < 0 THEN Neg(v) ELSE v
        t == CASE f.mulop = "*" -> Mul(f.term, sv)
               [] f.mulop = "/" -> Div(f.term, sv)
               [] OTHER -> sv IN
    [f EXCEPT !.term = t, !.mulop = "", !.sign = 1, !.operand = FALSE]

ReplaceTop(st, f) == [st EXCEPT !.stack[Len(st.stack)] = f]
\* the top frame replaced by f, unless a ZeroDivisionError made f
FeedFrame(st, f) == IF f.term = Err THEN EvalFail ELSE ReplaceTop(st, f)
\* operand v read into the top frame
Feed(st, v) == FeedFrame(st, Operand(st.stack[Len(st.stack)], v))
\* the value of a number or of a name; Err for a name VARS does not bind
Atom(tk) ==
    IF tk.t = "num" THEN tk.v
    ELSE IF tk.s \in DOMAIN VARS THEN VARS[tk.s] ELSE Err
\* the stack with its top frame, of value v, closed into the frame below
Close(st, v) == Feed([st EXCEPT !.stack = SubSeq(@, 1, Len(@) - 1)], v)

\* one lexeme read
Shift(st, tk) ==
    IF st.err THEN EvalFail
    ELSE LET n == Len(st.stack)
             f == st.stack[n] IN
      CASE tk.t \in {"num", "name"} /\ f.operand /\ Atom(tk) = Err -> EvalFail
        [] tk.t \in {"num", "name"} /\ f.operand -> Feed(st, Atom(tk))
        [] tk.t = "rpar" /\ ~f.operand /\ n > 1 -> Close(st, FrameValue(f))
        [] tk.t = "op" /\ tk.s \in {"+", "-"} /\ f.operand ->
             ReplaceTop(st, [f EXCEPT !.sign = IF tk.s = "-" THEN -@ ELSE @])
        [] tk.t = "op" /\ tk.s \in {"+", "-"} /\ ~f.operand ->
             ReplaceTop(st, [f EXCEPT !.acc = FrameValue(f), !.addop = tk.s,
                                      !.operand = TRUE])
        [] tk.t = "op" /\ tk.s \in {"*", "/"} /\ ~f.operand ->
             ReplaceTop(st, [f EXCEPT !.mulop = tk.s, !.operand = TRUE])
        [] tk.t = "lpar" /\ f.operand ->
             [st EXCEPT !.stack = Append(@, NewFrame)]
        [] OTHER -> EvalFail

RECURSIVE Run(_, _)
Run(st, e) == IF Len(e) = 0 THEN st ELSE Run(Shift(st, e[1]), SubSeq(e, 2, Len(e)))

\* float(eval(expr, {"__builtins__": None}, VARS)): Err for a SyntaxError, a
\* NameError, a ZeroDivisionError or a TypeError
Finish(st) ==
    IF st.err \/ Len(st.stack) # 1 \/ st.stack[1].operand THEN Err
    ELSE FrameValue(st.stack[1])
PyEval(e) == Finish(Run(EvalStart, e))

\* safe_eval: Err when it raises
EvalStripped(e) == IF ~SafePattern(e) THEN Err ELSE PyEval(e)
safe_eval(expr) == EvalStripped(StripBrackets(expr))

\* ------------------------------------------------------------------ groups
Keys == {"GridLeft", "GridRight", "GridTop", "GridBottom"}
\* the empty dict
EmptyGroup == [k \in {} |-> <<>>]
\* dict item assignment g[key] = val
SetItem(g, key, val) ==
    [k \in DOMAIN g \cup {key} |-> IF k = key THEN val ELSE g[k]]

\* the kinds of a stripped line, by the first test of parse_groups it meets
Blank == [kind |-> "blank", key |-> "", val |-> <<>>]
Comment == [kind |-> "comment", key |-> "", val |-> <<>>]
\* a line that begins with [<digits>]
Header == [kind |-> "header", key |-> "", val |-> <<>>]
\* a bracketed name that is no number, such as [Groups]
Section == [kind |-> "section", key |-> "", val |-> <<>>]
\* a line neither regular expression matches, such as NumberOfGroups=3
Other == [kind |-> "other", key |-> "", val |-> <<>>]
\* Key = Value with Key one of the four and Value not empty
KV(key, val) == [kind |-> "kv", key |-> key, val |-> val]

\* cur: None, or a dict
NoneCur == [open |-> FALSE, g |-> EmptyGroup]
Cur(g) == [open |-> TRUE, g |-> g]
\* `if cur is not None:` in place of `if cur:`
IsNotNone(cur) == cur.open
\* `if cur:` is the truth value of cur: False for None and for the empty dict
Truthy(cur) == cur.open /\ DOMAIN cur.g # {}
Flush(groups, cur) == IF Truthy(cur) THEN Append(groups, cur.g) ELSE groups

RECURSIVE ParseLines(_, _, _)
\* the for loop of parse_groups over the lines left, then the final flush
ParseLines(lines, groups, cur) ==
    IF Len(lines) = 0 THEN Flush(groups, cur)
    ELSE LET line == lines[1]
             rest == SubSeq(lines, 2, Len(lines)) IN
      CASE line.kind \in {"blank", "comment"} -> ParseLines(rest, groups, cur)
        [] line.kind = "header" ->
             ParseLines(rest, Flush(groups, cur), Cur(EmptyGroup))
        [] ~cur.open -> ParseLines(rest, groups, cur)
        [] line.kind = "kv" /\ line.key \in Keys ->
             ParseLines(rest, groups, Cur(SetItem(cur.g, line.key, line.val)))
        [] OTHER -> ParseLines(rest, groups, cur)

parse_groups(text) == ParseLines(text, <<>>, NoneCur)

\* ----------------------------------------------------------------- convert
\* hi of clamp, in units
Hi == 100
Lo == 0
\* clamp without its upper bound
clampNoHi(v) == PyMax(Num(Lo), v)
clamp(v) == PyMax(Num(Lo), PyMin(Num(Hi), v))

Zone(x, y, w, h) == [x |-> x, y |-> y, width |-> w, height |-> h]

\* ZoneOf with the extents taken from the raw edges and clamped afterwards:
\* x = min(L, R), w = max(L, R) - x, then each clamped
ZoneOfLate(L, R, T, B) ==
    LET x == PyMin(L, R)
        y == PyMin(T, B)
        w == Sub(PyMax(L, R), x)
        h == Sub(PyMax(T, B), y)
        x2 == PyMax(Num(Lo), PyMin(Num(Hi), x))
        y2 == PyMax(Num(Lo), PyMin(Num(Hi), y))
        w2 == PyMax(Num(Lo), PyMin(Num(Hi), w))
        h2 == PyMax(Num(Lo), PyMin(Num(Hi), h)) IN
    IF w2.k = "fin" /\ h2.k = "fin" /\ Lt(Num(0), w2) /\ Lt(Num(0), h2)
    THEN <<[x |-> Round3(x2), y |-> Round3(y2),
            width |-> Round3(w2), height |-> Round3(h2)]>>
    ELSE <<>>
\* ZoneOf with x and y taken from Left and Top, without min
ZoneOfNoMin(L, R, T, B) ==
    LET x == PyMax(Num(Lo), PyMin(Num(Hi), L))
        y == PyMax(Num(Lo), PyMin(Num(Hi), T))
        w == Sub(PyMax(Num(Lo), PyMin(Num(Hi), PyMax(L, R))), x)
        h == Sub(PyMax(Num(Lo), PyMin(Num(Hi), PyMax(T, B))), y) IN
    IF Lt(Num(0), w) /\ Lt(Num(0), h)
    THEN <<[x |-> Round3(x), y |-> Round3(y),
            width |-> Round3(w), height |-> Round3(h)]>>
    ELSE <<>>

\* lines 93-100: the zones (none or one) four evaluated edges add
ZoneOf(L, R, T, B) ==
    LET x == clamp(PyMin(L, R))
        y == clamp(PyMin(T, B))
        w == Sub(clamp(PyMax(L, R)), x)
        h == Sub(clamp(PyMax(T, B)), y)
        x2 == clamp(x)
        y2 == clamp(y)
        w2 == clamp(w)
        h2 == clamp(h) IN
    IF Lt(Num(0), w2) /\ Lt(Num(0), h2)
    THEN <<Zone(Round3(x2), Round3(y2), Round3(w2), Round3(h2))>>
    ELSE <<>>

Complete(g) == \A k \in Keys : k \in DOMAIN g

\* one pass of the first loop of convert: ok is FALSE when safe_eval raises
ConvertEdges(L, R, T, B) ==
    IF Err \in {L, R, T, B} THEN [ok |-> FALSE, zones |-> <<>>]
    ELSE [ok |-> TRUE, zones |-> ZoneOf(L, R, T, B)]
\* ConvertGroup with the expressions present evaluated before the test for
\* the four keys
ConvertGroupEager(g) ==
    IF \E k \in DOMAIN g : safe_eval(g[k]) = Err THEN [ok |-> FALSE, zones |-> <<>>]
    ELSE IF ~(\A k \in Keys : k \in DOMAIN g) THEN [ok |-> TRUE, zones |-> <<>>]
    ELSE ConvertEdges(safe_eval(g["GridLeft"]), safe_eval(g["GridRight"]),
                      safe_eval(g["GridTop"]), safe_eval(g["GridBottom"]))
ConvertGroup(g) ==
    IF ~Complete(g) THEN [ok |-> TRUE, zones |-> <<>>]
    ELSE ConvertEdges(safe_eval(g["GridLeft"]), safe_eval(g["GridRight"]),
                      safe_eval(g["GridTop"]), safe_eval(g["GridBottom"]))

RECURSIVE ZonesLoop(_, _)
\* the rest of the first loop after a pass gave r
ZonesNext(groups, zones, r) ==
    IF ~r.ok THEN [ok |-> FALSE, zones |-> <<>>]
    ELSE ZonesLoop(SubSeq(groups, 2, Len(groups)), zones \o r.zones)
\* the first loop of convert over the groups left
ZonesLoop(groups, zones) ==
    IF Len(groups) = 0 THEN [ok |-> TRUE, zones |-> zones]
    ELSE ZonesNext(groups, zones, ConvertGroup(groups[1]))

\* the zones list convert holds before de-duplication
Zones(groups) == ZonesLoop(groups, <<>>)

RECURSIVE DedupeLoop(_, _, _)
DedupeLoop(zones, uniq, seen) ==
    IF Len(zones) = 0 THEN uniq
    ELSE LET z == zones[1]
             key == <<z.x, z.y, z.width, z.height>>
             rest == SubSeq(zones, 2, Len(zones)) IN
         IF key \notin seen
         THEN DedupeLoop(rest, Append(uniq, z), seen \cup {key})
         ELSE DedupeLoop(rest, uniq, seen)

RECURSIVE DedupeKeepLast(_)
\* de-duplication that keeps the last occurrence of a tuple, not the first
DedupeKeepLast(zones) ==
    IF Len(zones) = 0 THEN <<>>
    ELSE LET rest == SubSeq(zones, 2, Len(zones)) IN
         IF \E j \in DOMAIN rest : rest[j] = zones[1] THEN DedupeKeepLast(rest)
         ELSE <<zones[1]>> \o DedupeKeepLast(rest)

\* the second loop of convert
Dedupe(zones) == DedupeLoop(zones, <<>>, {})

\* convert(groups): ok is FALSE when it raises, and zones is what it returns
DedupeResult(r) == IF r.ok THEN [ok |-> TRUE, zones |-> Dedupe(r.zones)] ELSE r
convert(groups) == DedupeResult(Zones(groups))

\* make_layout: the one layout of the output document; the name is the
\* source's stem followed by " (converted)"
make_layout(zones, name) ==
    [name |-> <<name, " (converted)">>, padding |-> 0, zones |-> zones]

\* ------------------------------------------------------------- file system
(***************************************************************************)
(* The entries the input directory 01-paste-grids-here can hold, numbered  *)
(* in the order sorted() gives their paths.  A path given with --file is   *)
(* one of the same entries, and exists when the entry is present.          *)
(***************************************************************************)
EHalfW == <<TLbr, TName("Monitor1Width"), TRbr, TOp("/"), TNum(Num(2))>>
EHalfH == <<TLbr, TName("Monitor1Height"), TRbr, TOp("/"), TNum(Num(2))>>
EZero == <<TNum(Num(0))>>
\* DROP TABLE: within SAFE_PATTERN, a SyntaxError in eval
EDrop == <<TName("DROP"), TName("TABLE")>>
\* 50; : the semicolon is outside SAFE_PATTERN
ESemi == <<TNum(Num(50)), TBad(";")>>
\* [Monitor2Width]/2 : a NameError in eval
EUnbound == <<TLbr, TName("Monitor2Width"), TRbr, TOp("/"), TNum(Num(2))>>

TextGood ==
    <<Comment, Section, Other, Blank, Header, KV("GridLeft", EZero),
      KV("GridRight", EHalfW), KV("GridTop", EZero), KV("GridBottom", EHalfH)>>
TextWith(e) ==
    <<Header, KV("GridLeft", e), KV("GridRight", EHalfW),
      KV("GridTop", EZero), KV("GridBottom", EHalfH)>>
\* a group without GridBottom, whose GridLeft cannot be evaluated
TextIncomplete ==
    <<Header, KV("GridLeft", EDrop), KV("GridRight", EHalfW), KV("GridTop", EZero)>>

FileTable ==
    <<[name |-> "a.ini", stem |-> "a", suffix |-> ".ini", isFile |-> TRUE, text |-> TextGood],
      [name |-> "a.txt", stem |-> "a", suffix |-> ".txt", isFile |-> TRUE, text |-> TextWith(EDrop)],
      [name |-> "b.INI", stem |-> "b", suffix |-> ".INI", isFile |-> TRUE, text |-> TextWith(ESemi)],
      [name |-> "c.txt", stem |-> "c", suffix |-> ".txt", isFile |-> TRUE, text |-> TextWith(EUnbound)],
      [name |-> "d.cfg", stem |-> "d", suffix |-> ".cfg", isFile |-> TRUE, text |-> TextIncomplete],
      [name |-> "sub", stem |-> "sub", suffix |-> "", isFile |-> FALSE, text |-> <<>>]>>
Entries == DOMAIN FileTable
\* p.suffix.lower() in (".ini", ".txt")
IniSuffix(p) == FileTable[p].suffix \in {".ini", ".INI", ".txt"}

RECURSIVE Sorted(_)
\* sorted(): the entries of S in increasing order
Sorted(S) ==
    IF S = {} THEN <<>>
    ELSE LET m == CHOOSE x \in S : \A y \in S : x <= y IN <<m>> \o Sorted(S \ {m})

\* find_ini_files over the entries present in the input directory
find_ini_files(pres) ==
    LET files == Sorted({p \in pres : FileTable[p].isFile /\ IniSuffix(p)}) IN
    IF files = <<>> THEN Sorted({p \in pres : FileTable[p].isFile}) ELSE files

\* the output directory 03-kzone-output: whether it exists, and its files as
\* <<stem, content>> pairs (the file <stem>_kzones.json)
NoDir == [exists |-> FALSE, files |-> {}]
OldContent == [name |-> <<"old", "">>, padding |-> 0, zones |-> <<>>]
mkdir(od) == [od EXCEPT !.exists = TRUE]
write_text(od, stem, content) ==
    [od EXCEPT !.files = {f \in @ : f[1] # stem} \cup {<<stem, content>>}]

NoResult == [ok |-> TRUE, zones |-> <<>>]
Raised(od, text, groups, result) ==
    [raised |-> TRUE, outdir |-> od, writes |-> 0,
     text |-> text, groups |-> groups, result |-> result]

\* convert_file(src_path, outdir, root): what it leaves behind; raised says
\* whether an exception left it
\* lines 145-148: the layout made and written once convert has given r
EmitLayout(stem, od, text, groups, r) ==
    IF ~r.ok THEN Raised(od, text, groups, r)
    ELSE [raised |-> FALSE,
          outdir |-> write_text(mkdir(od), stem, make_layout(r.zones, stem)),
          writes |-> 1, text |-> text, groups |-> groups, result |-> r]
\* lines 143-144: the text parsed and converted
ConvertGroupsOf(stem, od, text, groups) ==
    EmitLayout(stem, od, text, groups, convert(groups))
ConvertText(stem, od, text) ==
    ConvertGroupsOf(stem, od, text, parse_groups(text))
\* convert_file with outdir.mkdir moved before the conversion
convert_file_mkdir_first(s, pres, od) ==
    IF s \notin pres \/ ~FileTable[s].isFile
    THEN Raised(od, <<>>, <<>>, NoResult)
    ELSE ConvertText(FileTable[s].stem, mkdir(od), FileTable[s].text)
convert_file(s, pres, od) ==
    IF s \notin pres \/ ~FileTable[s].isFile
    THEN Raised(od, <<>>, <<>>, NoResult)
    ELSE ConvertText(FileTable[s].stem, od, FileTable[s].text)

\* ------------------------------------------------------------------- state
VARIABLES
    pc,        \* where the run is: "main", "choose", "convert_file", "exit",
               \* or, for the functions run on their own, "parse_groups",
               \* "convert", "done"
    argFile,   \* args.file
    argIndex,  \* args.index
    present,   \* the entries of the input directory
    outdir,    \* the output directory
    outdir0,   \* the output directory as the run found it
    src,       \* the source chosen (0: none yet)
    consulted, \* whether find_ini_files listed the input directory
    calls,     \* calls of convert_file
    writes,    \* calls of write_text
    exitCode,  \* the process's exit code (-1: still running)
    text,      \* the lines read
    groups,    \* the groups parsed
    result     \* what convert gave

vars == <<pc, argFile, argIndex, present, outdir, outdir0, src, consulted,
          calls, writes, exitCode, text, groups, result>>

\* ------------------------------------------------------------------ bounds
\* the largest --index and the largest number typed at the prompt
MaxIndex == 5
\* the longest text parse_groups is given on its own
MaxLines == 5
\* the longest list of groups convert is given on its own
MaxGroups == 3

BoundedSeq(S, n) == UNION {[1..m -> S] : m \in 0..n}

\* args.file: None, the empty string (path 0), or the path of an entry
NoFile == [given |-> FALSE, path |-> 0]
FileArg(p) == [given |-> TRUE, path |-> p]
NoIndex == [given |-> FALSE, n |-> 0]
IndexArg(n) == [given |-> TRUE, n |-> n]
\* `if args.file is not None:` in place of `if args.file:`
FileIsNotNone(a) == a.given
\* `if args.file:` is False for None and for ""
FileTruthy(a) == a.given /\ a.path # 0

Idle ==
    /\ argFile = NoFile /\ argIndex = NoIndex /\ present = {}
    /\ outdir = NoDir /\ outdir0 = NoDir /\ src = 0 /\ consulted = FALSE
    /\ calls = 0 /\ writes = 0 /\ exitCode = -1

\* -------------------------------------------------------------------- main
OutDirs == {NoDir, mkdir(NoDir), write_text(mkdir(NoDir), "a", OldContent)}

Init ==
    /\ pc = "main"
    /\ argFile \in {NoFile} \cup {FileArg(p) : p \in {0} \cup Entries}
    /\ argIndex \in {NoIndex} \cup {IndexArg(n) : n \in 0..MaxIndex}
    /\ present \in SUBSET Entries
    /\ outdir \in OutDirs
    /\ outdir0 = outdir
    /\ src = 0 /\ consulted = FALSE /\ calls = 0 /\ writes = 0 /\ exitCode = -1
    /\ text = <<>> /\ groups = <<>> /\ result = NoResult

Exit(code) ==
    /\ pc' = "exit"
    /\ exitCode' = code

\* main, --file given: lines 169-177 up to the call of convert_file
MainFile ==
    /\ pc = "main"
    /\ FileTruthy(argFile)
    /\ IF argFile.path \notin present
       THEN Exit(1) /\ UNCHANGED src
       ELSE pc' = "convert_file" /\ src' = argFile.path /\ UNCHANGED exitCode
    /\ UNCHANGED <<argFile, argIndex, present, outdir, outdir0, consulted,
                   calls, writes, text, groups, result>>

\* main, no --file: lines 179-192 up to the call of choose_file or convert_file
MainList ==
    /\ pc = "main"
    /\ ~FileTruthy(argFile)
    /\ consulted' = TRUE
    /\ LET files == find_ini_files(present) IN
       IF files = <<>> THEN Exit(1) /\ UNCHANGED src
       ELSE IF argIndex.given
       THEN IF ~(1 <= argIndex.n /\ argIndex.n <= Len(files))
            THEN Exit(1) /\ UNCHANGED src
            ELSE pc' = "convert_file" /\ src' = files[argIndex.n]
                 /\ UNCHANGED exitCode
       ELSE pc' = "choose" /\ UNCHANGED <<src, exitCode>>
    /\ UNCHANGED <<argFile, argIndex, present, outdir, outdir0,
                   calls, writes, text, groups, result>>

\* what is typed at the prompt: q, a number, or anything else
Typed == {[quit |-> TRUE, digit |-> FALSE, n |-> 0],
          [quit |-> FALSE, digit |-> FALSE, n |-> 0]}
         \cup {[quit |-> FALSE, digit |-> TRUE, n |-> n] : n \in 0..MaxIndex}

\* choose_file: one turn of its loop
ChooseFile ==
    /\ pc = "choose"
    /\ \E choice \in Typed :
         LET files == find_ini_files(present) IN
         IF choice.quit THEN Exit(0) /\ UNCHANGED src
         ELSE IF choice.digit /\ 1 <= choice.n /\ choice.n <= Len(files)
         THEN pc' = "convert_file" /\ src' = files[choice.n] /\ UNCHANGED exitCode
         ELSE UNCHANGED <<pc, src, exitCode>>
    /\ UNCHANGED <<argFile, argIndex, present, outdir, outdir0, consulted,
                   calls, writes, text, groups, result>>

Returned(r) ==
    /\ outdir' = r.outdir
    /\ writes' = writes + r.writes
    /\ text' = r.text /\ groups' = r.groups /\ result' = r.result
    /\ Exit(IF r.raised THEN 1 ELSE 0)

\* the call of convert_file and the end of main: exit code 0 when main
\* returns, 1 when an exception leaves it
ConvertFile ==
    /\ pc = "convert_file"
    /\ Returned(convert_file(src, present, outdir))
    /\ calls' = calls + 1
    /\ UNCHANGED <<argFile, argIndex, present, outdir0, src, consulted>>

Next == MainFile \/ MainList \/ ChooseFile \/ ConvertFile

Spec == Init /\ [][Next]_vars

\* ----------------------------------------------- parse_groups on its own
LinePool ==
    {Comment, Section, Header, KV("GridLeft", EZero), KV("GridLeft", EDrop),
     KV("GridRight", EHalfW), KV("GridTop", EZero), KV("GridBottom", EHalfH)}

InitParse ==
    /\ pc = "parse_groups"
    /\ text \in BoundedSeq(LinePool, MaxLines)
    /\ groups = <<>> /\ result = NoResult
    /\ Idle

ParseGroups ==
    /\ pc = "parse_groups"
    /\ groups' = parse_groups(text)
    /\ pc' = "convert"
    /\ UNCHANGED <<argFile, argIndex, present, outdir, outdir0, src, consulted,
                   calls, writes, exitCode, text, result>>

Convert ==
    /\ pc = "convert"
    /\ result' = convert(groups)
    /\ pc' = "done"
    /\ UNCHANGED <<argFile, argIndex, present, outdir, outdir0, src, consulted,
                   calls, writes, exitCode, text, groups>>

NextParse == ParseGroups \/ Convert

SpecParse == InitParse /\ [][NextParse]_vars

\* ---------------------------------------------------- convert on its own
\* -50
ENeg == <<TOp("-"), TNum(Num(50))>>
\* 0.0004
ETiny == <<TNum(Fin(4))>>
\* 31.6245: the double is 31.62450000000000116
ETie == <<TNum(FinE(316245, 1))>>
\* 50.0004
EHalfUp == <<TNum(Fin(50 * Scale + 4))>>
\* [Monitor1Left]+[Monitor1Width]
EFull == <<TLbr, TName("Monitor1Left"), TRbr, TOp("+"),
           TLbr, TName("Monitor1Width"), TRbr>>
\* [Monitor1Width]*1.5
EOver == <<TLbr, TName("Monitor1Width"), TRbr, TOp("*"), TNum(Fin(Scale + Scale \div 2))>>
\* -1e999: the literal overflows to inf
ENegInf == <<TOp("-"), TNum(PosInf)>>
\* 1e999-1e999: nan
ENaN == <<TNum(PosInf), TOp("-"), TNum(PosInf)>>
\* 1/0: a ZeroDivisionError
EDivZero == <<TNum(Num(1)), TOp("/"), TNum(Num(0))>>

\* the expressions of the edges of a single group
EdgePool ==
    {ENeg, EZero, ETiny, ETie, EHalfW, EHalfUp, EFull, EOver, ENegInf, ENaN, EDrop}

\* every dict over a subset of the four keys
GroupsOver(E) == UNION {[S -> E] : S \in SUBSET Keys}

G(l, r, t, b) ==
    [k \in Keys |-> CASE k = "GridLeft" -> l [] k = "GridRight" -> r
                      [] k = "GridTop" -> t [] OTHER -> b]
Without(g, key) == [k \in DOMAIN g \ {key} |-> g[k]]

\* the groups of the longer lists
GroupPool ==
    {G(EZero, EHalfW, EZero, EHalfH), G(EHalfW, EZero, EHalfH, EZero),
     G(EZero, EHalfUp, EZero, EHalfH), G(EHalfW, EFull, EZero, EHalfH),
     G(ENeg, EHalfW, EZero, EFull), G(EZero, ETiny, EZero, EHalfH),
     G(EHalfW, EHalfW, EZero, EHalfH), Without(G(EZero, EHalfW, EZero, EHalfH), "GridBottom"),
     Without(G(EDrop, EFull, EZero, EHalfH), "GridTop"), G(EZero, ESemi, EZero, EHalfH),
     G(EZero, EHalfW, EUnbound, EHalfH), G(EZero, EHalfW, EZero, EDivZero),
     EmptyGroup}

InitConvert ==
    /\ pc = "convert"
    /\ groups \in {<<g>> : g \in GroupsOver(EdgePool)}
                    \cup BoundedSeq(GroupPool, MaxGroups)
    /\ text = <<>> /\ result = NoResult
    /\ Idle

NextConvert == Convert

SpecConvert == InitConvert /\ [][NextConvert]_vars

\* ================================================================= claims
\* the whole plane, in steps
Full == Hi * Scale
Range(q) == {q[i] : i \in DOMAIN q}
ConvertReturned == pc = "done" /\ result.ok
\* the value of edge k of group g
Edge(g, k) == safe_eval(g[k])
\* g has the four keys and each evaluates to a finite number
FiniteEdges(g) == Complete(g) /\ \A k \in Keys : Edge(g, k).k = "fin"
\* g has the four keys and each evaluates to a float
FloatEdges(g) == Complete(g) /\ \A k \in Keys : Edge(g, k) # Err
\* the smaller and the larger of two finite values, and a finite value
\* brought into [0, 100]
MinV(a, b) == IF Lt(b, a) THEN b ELSE a
MaxV(a, b) == IF Lt(a, b) THEN b ELSE a
ClampV(a) == IF a.v < 0 THEN Num(0) ELSE IF a.v > Full THEN Num(Hi) ELSE a

\* C1: no zone convert returns has an emitted (rounded) width <= 0 or
\* height <= 0.
C1_NoFlatZone ==
    ConvertReturned =>
      \A i \in DOMAIN result.zones :
        result.zones[i].width > 0 /\ result.zones[i].height > 0

\* the zone the claim C2 describes for finite edges: extents taken from the
\* unclamped edges and clamped after the subtraction
ZoneClampedLate(g) ==
    LET L == Edge(g, "GridLeft")
        R == Edge(g, "GridRight")
        T == Edge(g, "GridTop")
        B == Edge(g, "GridBottom") IN
    [x |-> Round3(ClampV(MinV(L, R))), y |-> Round3(ClampV(MinV(T, B))),
     width |-> Round3(ClampV(Sub(MaxV(L, R), MinV(L, R)))),
     height |-> Round3(ClampV(Sub(MaxV(T, B), MinV(T, B))))]
\* the same with each edge clamped before the subtraction
ZoneClampedEarly(g) ==
    LET L == Edge(g, "GridLeft")
        R == Edge(g, "GridRight")
        T == Edge(g, "GridTop")
        B == Edge(g, "GridBottom") IN
    [x |-> Round3(ClampV(MinV(L, R))), y |-> Round3(ClampV(MinV(T, B))),
     width |-> Round3(Sub(ClampV(MaxV(L, R)), ClampV(MinV(L, R)))),
     height |-> Round3(Sub(ClampV(MaxV(T, B)), ClampV(MinV(T, B))))]
\* convert was given the one group g, of finite edges, and emitted its zone
EmittedOne ==
    /\ ConvertReturned /\ Len(groups) = 1 /\ FiniteEdges(groups[1])
    /\ Len(result.zones) = 1

\* C2 as stated: the emitted zone of a group of finite edges has
\* x = clamp(min(L,R)), y = clamp(min(T,B)), width = clamp(max(L,R) - min(L,R))
\* and height = clamp(max(T,B) - min(T,B)), rounded to 3 decimals.
C2_ClampAfterSubtraction ==
    EmittedOne => result.zones[1] = ZoneClampedLate(groups[1])

\* C2 amended: the emitted zone of a group of finite edges has
\* x = clamp(min(L,R)), y = clamp(min(T,B)),
\* width = clamp(max(L,R)) - clamp(min(L,R)) and
\* height = clamp(max(T,B)) - clamp(min(T,B)), rounded to 3 decimals: the
\* edges are clamped before the subtraction.
C2_ClampBeforeSubtraction ==
    EmittedOne => result.zones[1] = ZoneClampedEarly(groups[1])

\* a group reaching from -50 to 50 is emitted with width 50, not 100
C2_Witness ==
    /\ EmittedOne
    /\ Edge(groups[1], "GridLeft") = Num(-50)
    /\ Edge(groups[1], "GridRight") = Num(50)
    /\ result.zones[1].x = 0 /\ result.zones[1].width = 50 * Scale

\* a zone whose right or bottom edge lies beyond 100
Overhangs(z) == z.x + z.width > Full \/ z.y + z.height > Full

\* convert was given the one complete group of numeric edges whose left
\* edge is 31.6245, whose right edge is 100 or more, and which spans the
\* top half
TieGroup ==
    /\ pc = "done" /\ Len(groups) = 1 /\ FiniteEdges(groups[1])
    /\ Edge(groups[1], "GridLeft") = FinE(316245, 1)
    /\ Edge(groups[1], "GridRight").v >= Full
    /\ Edge(groups[1], "GridTop") = Num(0)
    /\ Edge(groups[1], "GridBottom") = Num(50)

\* C3: there are four numeric edge values of a complete group for which
\* convert emits a zone with x + width > 100 or y + height > 100: the edges
\* 31.6245, 100 (or more), 0 and 50 are such values.
C3_SomeZoneOverhangs ==
    TieGroup =>
      /\ result.ok /\ Len(result.zones) = 1
      /\ Overhangs(result.zones[1])

\* left 31.6245 and right 100 are emitted as x = 31.625 and width = 68.376
C3_Witness ==
    /\ TieGroup
    /\ Edge(groups[1], "GridRight") = Num(Hi)
    /\ result.zones = <<Zone(316250, 0, 683760, 50 * Scale)>>

\* C4: x, y, width and height of every zone convert returns lie in [0, 100].
C4_FieldsInRange ==
    ConvertReturned =>
      \A z \in Range(result.zones) :
        \A v \in {z.x, z.y, z.width, z.height} : 0 <= v /\ v <= Full

\* a zone emitted for edges below 0, above 100 and inverted
C4_Witness ==
    /\ ConvertReturned /\ Len(groups) = 1 /\ FiniteEdges(groups[1])
    /\ Edge(groups[1], "GridLeft") = Num(150)
    /\ Edge(groups[1], "GridRight") = Num(-50)
    /\ result.zones = <<Zone(0, 0, Full, 50 * Scale)>>

\* the index of the first occurrence of z in q
FirstAt(q, z) == CHOOSE i \in DOMAIN q : q[i] = z /\ \A j \in 1..(i - 1) : q[j] # z

\* C5: the list convert returns holds each distinct rounded tuple among the
\* zones produced once, in the order of the first occurrences.
C5_FirstOccurrences ==
    ConvertReturned =>
      LET produced == Zones(groups).zones
          uniq == result.zones IN
      /\ \A i, j \in DOMAIN uniq : i # j => uniq[i] # uniq[j]
      /\ Range(uniq) = Range(produced)
      /\ \A i, j \in DOMAIN uniq :
           i < j => FirstAt(produced, uniq[i]) < FirstAt(produced, uniq[j])

\* three zones produced, the third a repeat of the first, two returned
C5_Witness ==
    /\ ConvertReturned
    /\ Len(Zones(groups).zones) = 3
    /\ Zones(groups).zones[1] = Zones(groups).zones[3]
    /\ Zones(groups).zones[1] # Zones(groups).zones[2]
    /\ Len(result.zones) = 2

\* --file names a path that does not exist
SourceMissing == argFile.given /\ argFile.path # 0 /\ argFile.path \notin present
\* an edge expression of a complete group parsed cannot be evaluated
EvalFails ==
    calls = 1 /\ \E i \in DOMAIN groups :
        Complete(groups[i]) /\ \E k \in Keys : Edge(groups[i], k) = Err
\* nothing was created or written
Untouched == writes = 0 /\ outdir = outdir0

\* C6: a run either completes, writing exactly one output file, or ends
\* with nothing written; when the source is missing or an edge expression of
\* a complete group fails to evaluate, the output directory is not created
\* and no output file is written or overwritten.
C6_AllOrNothing ==
    /\ pc # "exit" => Untouched
    /\ pc = "exit" =>
         \/ writes = 1 /\ exitCode = 0 /\ outdir.exists
         \/ Untouched
    /\ pc = "exit" /\ (SourceMissing \/ EvalFails) => Untouched /\ exitCode = 1

\* a.txt (DROP TABLE) chosen with no output directory: the run ends with
\* exit code 1 and still no output directory
C6_Witness ==
    /\ pc = "exit" /\ EvalFails /\ src = 2 /\ exitCode = 1
    /\ outdir0 = NoDir /\ outdir = NoDir

\* the lines that are numeric headers
Headers == {i \in DOMAIN text : text[i].kind = "header"}
\* the lines of the section header i opens
SectionOf(i) ==
    {j \in (i + 1)..Len(text) : \A h \in Headers : ~(i < h /\ h <= j)}
\* the Key = Value lines of the section header i opens
KVOf(i) == {j \in SectionOf(i) : text[j].kind = "kv"}
\* the dict the section of header i leaves: each key's last value
DictOf(i) ==
    [k \in {text[j].key : j \in KVOf(i)} |->
       text[CHOOSE j \in KVOf(i) :
              text[j].key = k /\ \A m \in KVOf(i) : text[m].key = k => m <= j].val]
\* the headers whose section holds a Key = Value line
Keyed == {i \in Headers : KVOf(i) # {}}
Parsed == pc \in {"convert", "done"}

\* C7 as stated: parse_groups returns one group per numeric header line.
C7_GroupPerHeader == Parsed => Len(groups) = Cardinality(Headers)

\* C7 amended: every numeric header starts a new group, and the group of the
\* previous header is flushed if it holds at least one of the four keys,
\* whether or not it holds all four; a group with no key is dropped.  The
\* groups returned are, in header order, those of the headers whose section
\* holds a Key = Value line.
C7_GroupPerKeyedHeader ==
    Parsed =>
      /\ Len(groups) = Cardinality(Keyed)
      /\ \A n \in DOMAIN groups :
           \E i \in Keyed :
             /\ Cardinality({h \in Keyed : h <= i}) = n
             /\ groups[n] = DictOf(i)

\* two headers, the first with no key under it, the second with fewer than
\* four: one group is returned
C7_Witness ==
    /\ Parsed
    /\ Cardinality(Headers) = 2 /\ Cardinality(Keyed) = 1
    /\ text[1].kind = "header" /\ text[2].kind = "header"
    /\ Len(groups) = 1 /\ ~Complete(groups[1])

\* the listing of the input directory
Listing == find_ini_files(present)
IndexValid == 1 <= argIndex.n /\ argIndex.n <= Len(Listing)
\* the conversion of entry p goes through
Converts(p) == FileTable[p].isFile /\ convert(parse_groups(FileTable[p].text)).ok
\* the run ended with exit code 1 and nothing written
Refused == exitCode = 1 /\ calls = 0 /\ Untouched
\* the run converted entry p and nothing else
ConvertedOnly(p) ==
    /\ calls = 1 /\ src = p
    /\ Converts(p) => exitCode = 0 /\ writes = 1

\* C8 as stated, with "--file is given" read as args.file is not None.
C8_ExitCodes ==
    pc = "exit" =>
      /\ argFile.given /\ argFile.path # 0 /\ argFile.path \notin present => Refused
      /\ ~argFile.given /\ Listing = <<>> => Refused
      /\ ~argFile.given /\ Listing # <<>> /\ argIndex.given /\ ~IndexValid => Refused
      /\ argFile.given /\ argFile.path \in present => ConvertedOnly(argFile.path)
      /\ ~argFile.given /\ Listing # <<>> /\ argIndex.given /\ IndexValid
           => ConvertedOnly(Listing[argIndex.n])
      /\ argFile.given /\ argIndex.given => ~consulted

\* --file was given a path that is not the empty string
NamesFile == argFile.given /\ argFile.path # 0

\* C8 amended: as C8, with an empty --file value counted as no --file.
\* Exit code 1 and nothing written when a non-empty --file names a path that
\* does not exist, when there is no (or an empty) --file and the listing is
\* empty, and when there is no (or an empty) --file and --index is outside
\* 1..(number of listed files).  With an existing --file, or with no (or an
\* empty) --file and a valid --index, exactly that one file is converted, and
\* the exit code is 0 if its conversion does not fail.  With a non-empty
\* --file and --index, the input directory is not listed.
C8_ExitCodesNonEmptyFile ==
    pc = "exit" =>
      /\ NamesFile /\ argFile.path \notin present => Refused
      /\ ~NamesFile /\ Listing = <<>> => Refused
      /\ ~NamesFile /\ Listing # <<>> /\ argIndex.given /\ ~IndexValid => Refused
      /\ NamesFile /\ argFile.path \in present => ConvertedOnly(argFile.path)
      /\ ~NamesFile /\ Listing # <<>> /\ argIndex.given /\ IndexValid
           => ConvertedOnly(Listing[argIndex.n])
      /\ NamesFile /\ argIndex.given => ~consulted

\* --file a.ini --index 2 with a.ini and a.txt present: a.ini is converted,
\* the directory is not listed, exit code 0
C8_Witness ==
    /\ pc = "exit" /\ argFile = FileArg(1) /\ argIndex = IndexArg(2)
    /\ {1, 2} \subseteq present
    /\ src = 1 /\ calls = 1 /\ writes = 1 /\ exitCode = 0 /\ ~consulted

\* C9: a group without all four keys is skipped whole: convert returns what
\* it returns for the list without such groups, even when an expression of
\* such a group cannot be evaluated.
C9_IncompleteSkipped ==
    pc = "done" =>
      /\ result = convert(SelectSeq(groups, Complete))
      /\ (\A i \in DOMAIN groups : ~Complete(groups[i]))
           => result = [ok |-> TRUE, zones |-> <<>>]

\* a list with a group that lacks a key and holds DROP TABLE, and a zone
\* returned from another group
C9_Witness ==
    /\ ConvertReturned /\ Len(result.zones) >= 1
    /\ \E i \in DOMAIN groups :
         /\ ~Complete(groups[i])
         /\ \E k \in DOMAIN groups[i] : Edge(groups[i], k) = Err

SwapLR(g) == G(g["GridRight"], g["GridLeft"], g["GridTop"], g["GridBottom"])
SwapTB(g) == G(g["GridLeft"], g["GridRight"], g["GridBottom"], g["GridTop"])

\* C10: for a complete group of numeric edges, swapping Left with Right,
\* Top with Bottom, or both, leaves what convert returns unchanged.
C10_SwapInvariant ==
    pc = "done" /\ Len(groups) = 1 /\ FloatEdges(groups[1]) =>
      /\ convert(<<SwapLR(groups[1])>>) = result
      /\ convert(<<SwapTB(groups[1])>>) = result
      /\ convert(<<SwapLR(SwapTB(groups[1]))>>) = result

\* Left = 100, Right = 50, Top = 50, Bottom = 0: the zone at (50, 0) of
\* size 50 x 50
C10_Witness ==
    /\ pc = "done" /\ Len(groups) = 1 /\ FiniteEdges(groups[1])
    /\ Edge(groups[1], "GridLeft") = Num(100)
    /\ Edge(groups[1], "GridRight") = Num(50)
    /\ Edge(groups[1], "GridTop") = Num(50)
    /\ Edge(groups[1], "GridBottom") = Num(0)
    /\ result.zones = <<Zone(50 * Scale, 0, 50 * Scale, 50 * Scale)>>
=============================================================================
